---- MODULE Spec2Model ----
(***************************************************************************)
(* A model of RiskManager (src/src/risk_manager.py): the position ledger   *)
(* (add_position, update_position_price, close_position), the position     *)
(* sizer, the stop-loss check, the statistics functions and the risk       *)
(* classifier.                                                             *)
(*                                                                         *)
(* Python floats are modelled as exact rationals [n |-> numerator,         *)
(* d |-> denominator > 0] in lowest terms; quantities and prices are       *)
(* whole numbers.  A square root is kept symbolically as its radicand.     *)
(***************************************************************************)
EXTENDS Integers, Sequences, FiniteSets

\* initial_capital, current_capital, positions, equity_curve and
\* returns_history are the fields of the RiskManager; positions is the dict,
\* a function from the live symbols to their Position.
\* realized is the sum of the P&L values close_position has returned so far,
\* nops counts the calls of the three mutators (it also stands for
\* datetime.now() in a Position's timestamp), and ret records the latest
\* call: its name, its arguments and what it returned or raised.
VARIABLES initial_capital, current_capital, positions, equity_curve,
          returns_history, realized, nops, ret

ledger == <<initial_capital, current_capital, positions, equity_curve,
            returns_history>>
vars == <<initial_capital, current_capital, positions, equity_curve,
          returns_history, realized, nops, ret>>

\* ------------------------------------------------------------------ bounds
\* Most calls of the three mutators in one run.
MaxOps == 4
\* Longest return sample and equity curve handed to the statistics functions.
MaxLen == 3

\* -------------------------------------------------------------- rationals
Abs(x) == IF x < 0 THEN -x ELSE x

RECURSIVE GCD(_, _)
GCD(a, b) == IF b = 0 THEN a ELSE GCD(b, a % b)

\* n/d in lowest terms with a positive denominator (d # 0).
Rat(n, d) ==
    LET g == GCD(Abs(n), Abs(d))
        s == IF d < 0 THEN -1 ELSE 1
    IN  [n |-> (s * n) \div g, d |-> (s * d) \div g]

Zero == Rat(0, 1)
RInt(k) == Rat(k, 1)
\* The sums, products and comparisons cancel common factors first, which
\* keeps the intermediate integers small.
RAdd(a, b) ==
    LET g == GCD(a.d, b.d)
    IN  Rat(a.n * (b.d \div g) + b.n * (a.d \div g), (a.d \div g) * b.d)
RNeg(a) == [n |-> -a.n, d |-> a.d]
RSub(a, b) == RAdd(a, RNeg(b))
RMul(a, b) ==
    LET x == Rat(a.n, b.d)
        y == Rat(b.n, a.d)
    IN  [n |-> x.n * y.n, d |-> x.d * y.d]
\* a / b for b # 0
RDiv(a, b) == RMul(a, Rat(b.d, b.n))
RAbs(a) == [n |-> Abs(a.n), d |-> a.d]
RLt(a, b) ==
    LET g == GCD(a.d, b.d)
    IN  a.n * (b.d \div g) < b.n * (a.d \div g)
RLe(a, b) == ~RLt(b, a)
RGt(a, b) == RLt(b, a)
RGe(a, b) == RLe(b, a)

\* Python's int(x) of a float: truncation toward zero.
int(x) == IF x.n >= 0 THEN x.n \div x.d ELSE -((-x.n) \div x.d)

min(a, b) == IF b < a THEN b ELSE a

\* ------------------------------------------------------- configuration
\* RiskManager(initial_capital=100000, max_position_size=0.1,
\*             max_portfolio_risk=0.02), stop_loss_percent defaulting to 0.05.
InitialCapital == 100000
max_position_size == Rat(10, 100)
max_portfolio_risk == Rat(2, 100)
stop_loss_percent == Rat(5, 100)

\* ------------------------------------------------------------- Position
Position(symbol, quantity, entry_price, current_price, timestamp) ==
    [symbol |-> symbol, quantity |-> quantity, entry_price |-> entry_price,
     current_price |-> current_price, timestamp |-> timestamp]

market_value(pos) == pos.quantity * pos.current_price

pnl(pos) == (pos.current_price - pos.entry_price) * pos.quantity

RECURSIVE SumOver(_, _)
\* sum(f[x] for x in S)
SumOver(f, S) ==
    IF S = {} THEN 0
    ELSE LET x == CHOOSE y \in S : TRUE
         IN  f[x] + SumOver(f, S \ {x})

\* sum(pos.market_value for pos in self.positions.values())
PortfolioValue(ps) == SumOver([s \in DOMAIN ps |-> market_value(ps[s])], DOMAIN ps)

\* sum(abs(pos.market_value) for pos in self.positions.values())
TotalExposure(ps) ==
    SumOver([s \in DOMAIN ps |-> Abs(market_value(ps[s]))], DOMAIN ps)

\* The empty dict.
NoPositions == [s \in {} |-> 0]

\* ------------------------------------------------------------------ Init
Init ==
    /\ initial_capital = InitialCapital
    /\ current_capital = InitialCapital
    /\ positions = NoPositions
    /\ equity_curve = <<InitialCapital>>
    /\ returns_history = <<>>
    /\ realized = 0
    /\ nops = 0
    /\ ret = [op |-> "__init__"]

\* ------------------------------------------------------ ledger mutators
\* AddPosition recording the new total value on the equity curve.
AddPositionRecordingEquity(symbol, quantity, price) ==
    /\ nops < MaxOps
    /\ positions' = [s \in DOMAIN positions \cup {symbol} |->
                       IF s = symbol
                       THEN Position(symbol, quantity, price, price, nops)
                       ELSE positions[s]]
    /\ current_capital' = current_capital - quantity * price
    /\ equity_curve' = Append(equity_curve, current_capital' + PortfolioValue(positions'))
    /\ nops' = nops + 1
    /\ ret' = [op |-> "add_position", symbol |-> symbol]
    /\ UNCHANGED <<initial_capital, returns_history, realized>>

AddPosition(symbol, quantity, price) ==
    /\ nops < MaxOps
    /\ positions' = [s \in DOMAIN positions \cup {symbol} |->
                       IF s = symbol
                       THEN Position(symbol, quantity, price, price, nops)
                       ELSE positions[s]]
    /\ current_capital' = current_capital - quantity * price
    /\ nops' = nops + 1
    /\ ret' = [op |-> "add_position", symbol |-> symbol]
    /\ UNCHANGED <<initial_capital, equity_curve, returns_history, realized>>

UpdatePositionPrice(symbol, new_price) ==
    /\ nops < MaxOps
    /\ positions' = IF symbol \in DOMAIN positions
                    THEN [positions EXCEPT ![symbol].current_price = new_price]
                    ELSE positions
    /\ nops' = nops + 1
    /\ ret' = [op |-> "update_position_price", symbol |-> symbol]
    /\ UNCHANGED <<initial_capital, current_capital, equity_curve,
                   returns_history, realized>>

\* ClosePosition crediting the lot's cost instead of its market value.
ClosePositionAtEntry(symbol) ==
    /\ nops < MaxOps
    /\ nops' = nops + 1
    /\ IF symbol \in DOMAIN positions
       THEN LET pos == positions[symbol]
            IN  /\ current_capital' = current_capital + pos.quantity * pos.entry_price
                /\ returns_history' =
                       Append(returns_history, Rat(pnl(pos), initial_capital))
                /\ positions' = [s \in DOMAIN positions \ {symbol} |-> positions[s]]
                /\ realized' = realized + pnl(pos)
                /\ ret' = [op |-> "close_position", symbol |-> symbol,
                           found |-> TRUE, out |-> pnl(pos)]
       ELSE /\ ret' = [op |-> "close_position", symbol |-> symbol,
                        found |-> FALSE, out |-> 0]
            /\ UNCHANGED <<current_capital, returns_history, positions, realized>>
    /\ UNCHANGED <<initial_capital, equity_curve>>

ClosePosition(symbol) ==
    /\ nops < MaxOps
    /\ nops' = nops + 1
    /\ IF symbol \in DOMAIN positions
       THEN LET pos == positions[symbol]
            IN  /\ current_capital' = current_capital + market_value(pos)
                /\ returns_history' =
                       Append(returns_history, Rat(pnl(pos), initial_capital))
                /\ positions' = [s \in DOMAIN positions \ {symbol} |-> positions[s]]
                /\ realized' = realized + pnl(pos)
                /\ ret' = [op |-> "close_position", symbol |-> symbol,
                           found |-> TRUE, out |-> pnl(pos)]
       ELSE /\ ret' = [op |-> "close_position", symbol |-> symbol,
                        found |-> FALSE, out |-> 0]
            /\ UNCHANGED <<current_capital, returns_history, positions, realized>>
    /\ UNCHANGED <<initial_capital, equity_curve>>

\* ------------------------------------------------------------- the sizer
\* risk_per_trade=None
None == [n |-> 0, d |-> 0]

\* calculate_position_size sizing from the initial capital, not the current.
calculate_position_size_initial(price, volatility, risk_per_trade) ==
    LET rpt == IF risk_per_trade = None THEN max_portfolio_risk ELSE risk_per_trade
        max_position_value == RMul(RInt(initial_capital), max_position_size)
        risk_amount == RMul(RInt(initial_capital), rpt)
        stop_distance == RMul(RInt(price), stop_loss_percent)
        risk_based_size == IF RGt(stop_distance, Zero)
                           THEN RDiv(risk_amount, stop_distance)
                           ELSE Zero
    IN  IF price = 0
        THEN [raised |-> "ZeroDivisionError"]
        ELSE LET max_shares == int(RDiv(max_position_value, RInt(price)))
                 risk_shares == int(risk_based_size)
             IN  [raised |-> "None", value |-> min(max_shares, risk_shares)]

calculate_position_size(price, volatility, risk_per_trade) ==
    LET rpt == IF risk_per_trade = None THEN max_portfolio_risk ELSE risk_per_trade
        max_position_value == RMul(RInt(current_capital), max_position_size)
        risk_amount == RMul(RInt(current_capital), rpt)
        stop_distance == RMul(RInt(price), stop_loss_percent)
        risk_based_size == IF RGt(stop_distance, Zero)
                           THEN RDiv(risk_amount, stop_distance)
                           ELSE Zero
    IN  IF price = 0
        THEN [raised |-> "ZeroDivisionError"]
        ELSE LET max_shares == int(RDiv(max_position_value, RInt(price)))
                 risk_shares == int(risk_based_size)
             IN  [raised |-> "None", value |-> min(max_shares, risk_shares)]

\* ------------------------------------------------------------ statistics
RECURSIVE Insert(_, _)
Insert(x, s) ==
    IF s = <<>> THEN <<x>>
    ELSE IF RLe(x, Head(s)) THEN <<x>> \o s
    ELSE <<Head(s)>> \o Insert(x, Tail(s))

RECURSIVE Sorted(_)
Sorted(s) == IF s = <<>> THEN <<>> ELSE Insert(Head(s), Sorted(Tail(s)))

RECURSIVE RSum(_)
RSum(s) == IF s = <<>> THEN Zero ELSE RAdd(Head(s), RSum(Tail(s)))

\* np.mean of a non-empty sample
mean(s) == RDiv(RSum(s), RInt(Len(s)))

\* np.std squared (ddof = 0): the mean squared deviation; np.std is its root.
variance(s) ==
    LET m == mean(s)
    IN  mean([i \in 1..Len(s) |-> RMul(RSub(s[i], m), RSub(s[i], m))])

\* np.percentile(a, q), the default linear interpolation between the two
\* order statistics around position q/100 * (n - 1).
percentile(a, q) ==
    LET srt == Sorted(a)
        n == Len(a)
        pos == RMul(RDiv(q, RInt(100)), RInt(n - 1))
        lo == int(pos)
        hi == min(lo + 1, n - 1)
        frac == RSub(pos, RInt(lo))
    IN  RAdd(srt[lo + 1], RMul(frac, RSub(srt[hi + 1], srt[lo + 1])))

calculate_var(returns, confidence_level, method) ==
    IF method = "historical"
    THEN [raised |-> "None",
          value |-> percentile(returns,
                               RMul(RSub(RInt(1), confidence_level), RInt(100)))]
    ELSE IF method = "parametric"
    THEN [raised |-> "None",
          mean |-> mean(returns),
          std |-> [sqrt |-> variance(returns)],
          z_score |-> IF confidence_level = Rat(95, 100)
                      THEN Rat(-1645, 1000) ELSE Rat(-2326, 1000)]
    ELSE [raised |-> "ValueError"]

\* returns[returns <= var].mean(); the mean of an empty selection is nan.
calculate_expected_shortfall(returns, confidence_level) ==
    LET var == calculate_var(returns, confidence_level, "historical").value
        tail == SelectSeq(returns, LAMBDA r : RLe(r, var))
    IN  IF tail = <<>> THEN [nan |-> TRUE] ELSE mean(tail)

RECURSIVE DrawdownLoopFixedPeak(_, _, _, _)
\* DrawdownLoop measuring every value against the first peak only.
DrawdownLoopFixedPeak(curve, i, peak, max_dd) ==
    IF i > Len(curve) THEN [raised |-> "None", value |-> max_dd]
    ELSE LET value == curve[i]
         IN  IF peak = 0
             THEN [raised |-> "ZeroDivisionError"]
             ELSE LET dd == Rat(peak - value, peak)
                  IN  DrawdownLoopFixedPeak(curve, i + 1, peak,
                                            IF RGt(dd, max_dd) THEN dd ELSE max_dd)

RECURSIVE DrawdownLoop(_, _, _, _)
\* The for loop of calculate_max_drawdown from element i on.
DrawdownLoop(curve, i, peak, max_dd) ==
    IF i > Len(curve) THEN [raised |-> "None", value |-> max_dd]
    ELSE LET value == curve[i]
             peak2 == IF value > peak THEN value ELSE peak
         IN  IF peak2 = 0
             THEN [raised |-> "ZeroDivisionError"]
             ELSE LET dd == Rat(peak2 - value, peak2)
                  IN  DrawdownLoop(curve, i + 1, peak2,
                                   IF RGt(dd, max_dd) THEN dd ELSE max_dd)

calculate_max_drawdown(curve) == DrawdownLoop(curve, 1, curve[1], Zero)

\* sqrt(252) * mean(excess) / std(excess), kept as its mean and radicand.
calculate_sharpe_ratio(returns, risk_free_rate) ==
    IF Len(returns) = 0 THEN [zero |-> TRUE]
    ELSE LET daily == RDiv(risk_free_rate, RInt(252))
             excess_returns == [i \in 1..Len(returns) |-> RSub(returns[i], daily)]
         IN  IF variance(excess_returns) = Zero
             THEN [zero |-> TRUE]
             ELSE [zero |-> FALSE, mean |-> mean(excess_returns),
                   std |-> [sqrt |-> variance(excess_returns)]]

\* ------------------------------------------------------- risk classifier
\* _determine_risk_level with the CRITICAL drawdown threshold inclusive.
_determine_risk_level_inclusive(max_drawdown, var_95, portfolio_value) ==
    LET var_percent == IF RGt(portfolio_value, Zero)
                       THEN RAbs(RDiv(var_95, portfolio_value))
                       ELSE Zero
    IN  IF RGe(max_drawdown, Rat(25, 100)) \/ RGt(var_percent, Rat(10, 100))
        THEN "CRITICAL"
        ELSE IF RGt(max_drawdown, Rat(15, 100)) \/ RGt(var_percent, Rat(5, 100))
        THEN "HIGH"
        ELSE IF RGt(max_drawdown, Rat(8, 100)) \/ RGt(var_percent, Rat(3, 100))
        THEN "MEDIUM"
        ELSE "LOW"

_determine_risk_level(max_drawdown, var_95, portfolio_value) ==
    LET var_percent == IF RGt(portfolio_value, Zero)
                       THEN RAbs(RDiv(var_95, portfolio_value))
                       ELSE Zero
    IN  IF RGt(max_drawdown, Rat(25, 100)) \/ RGt(var_percent, Rat(10, 100))
        THEN "CRITICAL"
        ELSE IF RGt(max_drawdown, Rat(15, 100)) \/ RGt(var_percent, Rat(5, 100))
        THEN "HIGH"
        ELSE IF RGt(max_drawdown, Rat(8, 100)) \/ RGt(var_percent, Rat(3, 100))
        THEN "MEDIUM"
        ELSE "LOW"

\* ---------------------------------------------------- metrics aggregator
\* np.diff(self.equity_curve) / self.equity_curve[:-1]
PeriodReturns(curve) ==
    IF Len(curve) > 1
    THEN [i \in 1..(Len(curve) - 1) |-> Rat(curve[i + 1] - curve[i], curve[i])]
    ELSE <<Zero>>

\* The RiskMetrics snapshot built from the values computed so far.
RiskMetrics(portfolio_value, total_exposure, returns, var_95, max_dd) ==
    LET pv == RInt(portfolio_value)
        var_99 == RMul(calculate_var(returns, Rat(99, 100), "historical").value, pv)
        es == RMul(calculate_expected_shortfall(returns, Rat(95, 100)), pv)
        sharpe == calculate_sharpe_ratio(returns, Rat(2, 100))
        volatility == [sqrt |-> RMul(variance(returns), RInt(252))]
    IN  [portfolio_value |-> portfolio_value,
         total_exposure |-> total_exposure,
         var_95 |-> var_95,
         var_99 |-> var_99,
         expected_shortfall |-> es,
         max_drawdown |-> max_dd,
         sharpe_ratio |-> sharpe,
         volatility |-> volatility,
         beta |-> RInt(1),
         risk_level |-> _determine_risk_level(max_dd, var_95, pv)]

\* Each local of the method is bound once, as the method computes it once.
calculate_portfolio_metrics ==
    CHOOSE metrics \in
      { RiskMetrics(portfolio_value, total_exposure, returns, var_95, max_dd) :
          portfolio_value \in {PortfolioValue(positions)},
          total_exposure \in {TotalExposure(positions)},
          returns \in {PeriodReturns(equity_curve)},
          var_95 \in {RMul(calculate_var(PeriodReturns(equity_curve), Rat(95, 100),
                                         "historical").value,
                           RInt(PortfolioValue(positions)))},
          max_dd \in {calculate_max_drawdown(equity_curve).value} } : TRUE

Summary(metrics) ==
    [capital |-> current_capital,
     portfolio_value |-> metrics.portfolio_value,
     total_value |-> current_capital + metrics.portfolio_value,
     total_pnl |-> (current_capital + metrics.portfolio_value) - initial_capital,
     num_positions |-> Cardinality(DOMAIN positions),
     risk_level |-> metrics.risk_level,
     var_95 |-> metrics.var_95,
     max_drawdown |-> metrics.max_drawdown,
     sharpe_ratio |-> metrics.sharpe_ratio,
     volatility |-> metrics.volatility]

get_portfolio_summary ==
    CHOOSE summary \in {Summary(metrics) : metrics \in {calculate_portfolio_metrics}} :
        TRUE

\* ----------------------------------------------------------- stop-loss
\* check_stop_loss comparing the entry price instead of the current price.
check_stop_loss_entry(position, stop_loss_price) ==
    IF position.quantity > 0
    THEN RLe(RInt(position.entry_price), stop_loss_price)
    ELSE RGe(RInt(position.entry_price), stop_loss_price)

check_stop_loss(position, stop_loss_price) ==
    IF position.quantity > 0
    THEN RLe(RInt(position.current_price), stop_loss_price)
    ELSE RGe(RInt(position.current_price), stop_loss_price)

\* --------------------------------------------------------------- queries
\* A query leaves the ledger alone and records its arguments and its result.
CalculatePositionSize(price, volatility, risk_per_trade) ==
    /\ ret' = [op |-> "calculate_position_size", price |-> price,
               volatility |-> volatility, risk_per_trade |-> risk_per_trade,
               out |-> calculate_position_size(price, volatility, risk_per_trade)]
    /\ UNCHANGED <<ledger, realized, nops>>

CalculatePortfolioMetrics ==
    /\ ret' = [op |-> "calculate_portfolio_metrics",
               out |-> calculate_portfolio_metrics]
    /\ UNCHANGED <<ledger, realized, nops>>

GetPortfolioSummary ==
    /\ ret' = [op |-> "get_portfolio_summary", out |-> get_portfolio_summary]
    /\ UNCHANGED <<ledger, realized, nops>>

CheckStopLoss(symbol, stop_loss_price) ==
    /\ symbol \in DOMAIN positions
    /\ ret' = [op |-> "check_stop_loss", symbol |-> symbol,
               stop_loss_price |-> stop_loss_price,
               out |-> check_stop_loss(positions[symbol], stop_loss_price)]
    /\ UNCHANGED <<ledger, realized, nops>>

CalculateVar(returns, confidence_level, method) ==
    /\ ret' = [op |-> "calculate_var", returns |-> returns,
               confidence_level |-> confidence_level, method |-> method,
               out |-> calculate_var(returns, confidence_level, method)]
    /\ UNCHANGED <<ledger, realized, nops>>

CalculateMaxDrawdown(curve) ==
    /\ ret' = [op |-> "calculate_max_drawdown", equity_curve |-> curve,
               out |-> calculate_max_drawdown(curve)]
    /\ UNCHANGED <<ledger, realized, nops>>

DetermineRiskLevel(max_drawdown, var_95, portfolio_value) ==
    /\ ret' = [op |-> "_determine_risk_level", max_drawdown |-> max_drawdown,
               var_95 |-> var_95, portfolio_value |-> portfolio_value,
               out |-> _determine_risk_level(max_drawdown, var_95, portfolio_value)]
    /\ UNCHANGED <<ledger, realized, nops>>

\* ---------------------------------------------------------------- inputs
\* The ledger: two symbols, long and short lots, two prices.
Symbols == {"AAPL", "GOOGL"}
Quantities == {100, -50}
Prices == {150, 180}

Next ==
    \/ \E s \in Symbols, q \in Quantities, p \in Prices : AddPosition(s, q, p)
    \/ \E s \in Symbols, p \in Prices : UpdatePositionPrice(s, p)
    \/ \E s \in Symbols : ClosePosition(s)
    \/ GetPortfolioSummary

Spec == Init /\ [][Next]_vars

\* The metrics snapshot, with lots large enough to lose over a quarter of
\* the capital on one price move.
MetricsQuantities == {1000, -100}

NextMetrics ==
    \/ \E s \in Symbols, q \in MetricsQuantities, p \in Prices : AddPosition(s, q, p)
    \/ \E s \in Symbols, p \in Prices : UpdatePositionPrice(s, p)
    \/ \E s \in Symbols : ClosePosition(s)
    \/ CalculatePortfolioMetrics

SpecMetrics == Init /\ [][NextMetrics]_vars

\* The sizer: one symbol, lots of a tenth and of ten tenths of the capital's
\* worth, and the arguments of calculate_position_size.
SizerQuantities == {100, 1000, -100}
SizerPrices == {0, 180}
Volatilities == {Rat(25, 100), Rat(28, 100)}
RisksPerTrade == {None, Rat(1, 100)}

NextSizer ==
    \/ \E q \in SizerQuantities, p \in Prices : AddPosition("AAPL", q, p)
    \/ \E p \in Prices : UpdatePositionPrice("AAPL", p)
    \/ ClosePosition("AAPL")
    \/ \E p \in SizerPrices, v \in Volatilities, r \in RisksPerTrade :
          CalculatePositionSize(p, v, r)

SpecSizer == Init /\ [][NextSizer]_vars

\* The stop-loss monitoring of the demo: TSLA 250 -> 235 against 237.5,
\* NVDA 450 -> 440 against 427.5.
StopSymbols == {"TSLA", "NVDA"}
StopQuantities == {100, -100}
StopPrices == [s \in StopSymbols |-> IF s = "TSLA" THEN {235, 250} ELSE {440, 450}]
StopLossPrices == {Rat(2375, 10), Rat(4275, 10), RInt(250)}

NextStop ==
    \/ \E s \in StopSymbols, q \in StopQuantities : \E p \in StopPrices[s] :
          AddPosition(s, q, p)
    \/ \E s \in StopSymbols : \E p \in StopPrices[s] : UpdatePositionPrice(s, p)
    \/ \E s \in StopSymbols : ClosePosition(s)
    \/ \E s \in StopSymbols, t \in StopLossPrices : CheckStopLoss(s, t)

SpecStop == Init /\ [][NextStop]_vars

\* Non-empty samples of at most MaxLen values drawn from S.
Samples(S) == UNION {[1..k -> S] : k \in 1..MaxLen}

ReturnValues == {Rat(-2, 100), Zero, Rat(1, 100)}
ConfidenceLevels == {Rat(90, 100), Rat(95, 100), Rat(99, 100)}
Methods == {"historical", "parametric", "monte_carlo"}

NextVar ==
    \E r \in Samples(ReturnValues), c \in ConfidenceLevels, m \in Methods :
       CalculateVar(r, c, m)

SpecVar == Init /\ [][NextVar]_vars

EquityValues == {-50, 0, 50, 75, 100}

NextDrawdown == \E c \in Samples(EquityValues) : CalculateMaxDrawdown(c)

SpecDrawdown == Init /\ [][NextDrawdown]_vars

Drawdowns == {Rat(k, 100) : k \in {0, 8, 9, 15, 16, 25, 26}}
VarAmounts == {RInt(k) : k \in {-11, -10, -6, -5, -4, -3, 0, 3, 4, 11}}
PortfolioValues == {RInt(-100), Zero, RInt(100)}

NextRisk ==
    \E m \in Drawdowns, v \in VarAmounts, p \in PortfolioValues :
       DetermineRiskLevel(m, v, p)

SpecRisk == Init /\ [][NextRisk]_vars

\* ================================================================ claims
\* The steps of the three mutators, read off the call record.
AddStep == nops' = nops + 1 /\ ret'.op = "add_position"
UpdateStep == nops' = nops + 1 /\ ret'.op = "update_position_price"
CloseLiveStep == nops' = nops + 1 /\ ret'.op = "close_position" /\ ret'.found

\* C1: every add_position call and every close_position call on a live
\* symbol makes the equity curve exactly one entry longer, and
\* update_position_price appends nothing.
C1_BookingAppendsEquity ==
    [][/\ (AddStep \/ CloseLiveStep) => Len(equity_curve') = Len(equity_curve) + 1
       /\ UpdateStep => equity_curve' = equity_curve]_vars

\* C2: close_position(s) on a live symbol s credits current_capital with
\* quantity x current price, appends the one entry realized P&L /
\* initial_capital to the return history, removes s from the positions (so
\* the portfolio value drops by the lot's market value), returns
\* (current price - entry price) x quantity and leaves every other position
\* as it was.
C2_ClosePosition ==
    [][CloseLiveStep =>
         LET s == ret'.symbol
             q == positions[s].quantity
             cp == positions[s].current_price
             ep == positions[s].entry_price
             last == returns_history'[Len(returns_history')]
         IN  /\ s \in DOMAIN positions
             /\ current_capital' = current_capital + q * cp
             /\ Len(returns_history') = Len(returns_history) + 1
             /\ SubSeq(returns_history', 1, Len(returns_history)) = returns_history
             /\ last.d > 0
             /\ last.n * initial_capital = (cp - ep) * q * last.d
             /\ DOMAIN positions' = DOMAIN positions \ {s}
             /\ \A o \in DOMAIN positions' : positions'[o] = positions[o]
             /\ PortfolioValue(positions') = PortfolioValue(positions) - q * cp
             /\ ret'.out = (cp - ep) * q
             /\ initial_capital' = initial_capital]_vars

\* A close that realized a gain or a loss while another position stayed open.
C2_Witness ==
    /\ ret.op = "close_position"
    /\ ret.found
    /\ ret.out # 0
    /\ DOMAIN positions # {}
    /\ Len(returns_history) > 0

\* C9: the total_pnl of get_portfolio_summary equals the P&L returned by all
\* close_position calls so far plus the unrealized P&L of the live positions.
C9_PnlConservation ==
    ret.op = "get_portfolio_summary" =>
        ret.out.total_pnl =
            realized + SumOver([s \in DOMAIN positions |-> pnl(positions[s])],
                               DOMAIN positions)

\* C10: under the three mutators the equity curve stays the single seed entry
\* [initial_capital], and calculate_portfolio_metrics reports max_drawdown 0,
\* var_95 0 and risk level LOW whatever the positions have lost.
C10_EquityNeverMoves ==
    /\ equity_curve = <<initial_capital>>
    /\ ret.op = "calculate_portfolio_metrics" =>
          /\ ret.out.max_drawdown = Zero
          /\ ret.out.var_95 = Zero
          /\ ret.out.risk_level = "LOW"

\* A snapshot taken when capital plus positions is worth 30% less than the
\* initial capital, still classified LOW.
C10_Witness ==
    /\ ret.op = "calculate_portfolio_metrics"
    /\ (current_capital + ret.out.portfolio_value) * 10 <= initial_capital * 7
    /\ ret.out.risk_level = "LOW"
    /\ ret.out.max_drawdown = Zero

\* Integer quotients of n by d > 0: rounded down, and rounded toward zero.
FloorDiv(n, d) == n \div d
TruncDiv(n, d) == IF n >= 0 THEN n \div d ELSE -((-n) \div d)

\* The risk-per-trade fraction a recorded call used.
UsedRisk == IF ret.risk_per_trade = None THEN max_portfolio_risk ELSE ret.risk_per_trade

\* C3: calculate_position_size with price > 0 returns a share count that is
\* never negative, in every state the mutators can reach.
C3_SizeNeverNegative ==
    (ret.op = "calculate_position_size" /\ ret.price > 0) =>
        (ret.out.raised = "None" /\ ret.out.value >= 0)

Above(x, pct) == x.n * 100 > pct * x.d
\* |v| / p > pct/100 for rationals v and p > 0
RatioAbove(v, p, pct) == Abs(v.n) * p.d * 100 > pct * v.d * p.n

\* C5: the level is the first matching row of the table CRITICAL (drawdown >
\* 0.25 or var_percent > 0.10), HIGH (> 0.15 or > 0.05), MEDIUM (> 0.08 or >
\* 0.03), else LOW, with var_percent = |var_95| / portfolio_value, taken as 0
\* when portfolio_value <= 0; all comparisons are strict, so a drawdown of
\* exactly 0.25 is HIGH.
C5_RiskTable ==
    ret.op = "_determine_risk_level" =>
        LET md == ret.max_drawdown
            v == ret.var_95
            p == ret.portfolio_value
            VarAbove(pct) == p.n > 0 /\ RatioAbove(v, p, pct)
            critical == Above(md, 25) \/ VarAbove(10)
            high == Above(md, 15) \/ VarAbove(5)
            medium == Above(md, 8) \/ VarAbove(3)
        IN  /\ (ret.out = "CRITICAL") <=> critical
            /\ (ret.out = "HIGH") <=> (~critical /\ high)
            /\ (ret.out = "MEDIUM") <=> (~critical /\ ~high /\ medium)
            /\ (ret.out = "LOW") <=> (~critical /\ ~high /\ ~medium)
            /\ (md.n * 4 = md.d /\ ~VarAbove(10)) => ret.out = "HIGH"

\* A drawdown of exactly 0.25 with a small VaR, classified HIGH.
C5_Witness ==
    /\ ret.op = "_determine_risk_level"
    /\ ret.max_drawdown = Rat(25, 100)
    /\ ret.portfolio_value.n > 0
    /\ ret.var_95 = RInt(-3)
    /\ ret.out = "HIGH"

\* C6: calculate_var raises an invalid-argument error for a method that is
\* neither historical nor parametric, and for parametric with a confidence
\* level other than 0.95 and 0.99; parametric uses z = -1.645 at 0.95 and
\* z = -2.326 at 0.99.
C6_VarRejectsBadArguments ==
    ret.op = "calculate_var" =>
        /\ ret.method \notin {"historical", "parametric"} =>
              ret.out.raised = "ValueError"
        /\ (ret.method = "parametric"
              /\ ret.confidence_level \notin {Rat(95, 100), Rat(99, 100)}) =>
              ret.out.raised = "ValueError"
        /\ (ret.method = "parametric" /\ ret.confidence_level = Rat(95, 100)) =>
              (ret.out.raised = "None" /\ ret.out.z_score = Rat(-1645, 1000))
        /\ (ret.method = "parametric" /\ ret.confidence_level = Rat(99, 100)) =>
              (ret.out.raised = "None" /\ ret.out.z_score = Rat(-2326, 1000))

\* C7: check_stop_loss on a live position answers true exactly when the
\* position is long and its current price <= the threshold, or short and its
\* current price >= the threshold; it reads the latest current price and
\* changes nothing in the ledger.  Long 250 -> 235 triggers at 237.5; long
\* 450 -> 440 does not trigger at 427.5.
C7_StopLoss ==
    [][ret'.op = "check_stop_loss" =>
         LET pos == positions[ret'.symbol]
             t == ret'.stop_loss_price
             long == pos.quantity > 0
             short == pos.quantity < 0
         IN  /\ UNCHANGED ledger
             /\ ret'.out <=> \/ long /\ pos.current_price * t.d <= t.n
                             \/ short /\ pos.current_price * t.d >= t.n
             /\ (long /\ pos.entry_price = 250 /\ pos.current_price = 235
                   /\ t = Rat(2375, 10)) => ret'.out
             /\ (long /\ pos.entry_price = 450 /\ pos.current_price = 440
                   /\ t = Rat(4275, 10)) => ~ret'.out]_vars

\* The long entered at 250 and marked down to 235, checked against 237.5.
C7_Witness ==
    /\ ret.op = "check_stop_loss"
    /\ ret.symbol = "TSLA"
    /\ "TSLA" \in DOMAIN positions
    /\ positions["TSLA"].quantity > 0
    /\ positions["TSLA"].entry_price = 250
    /\ positions["TSLA"].current_price = 235
    /\ ret.stop_loss_price = Rat(2375, 10)
    /\ ret.out

\* The largest curve[j] with j <= i, and the drawdown at i against it.
RunningPeak(curve, i) ==
    CHOOSE m \in {curve[j] : j \in 1..i} : \A j \in 1..i : curve[j] <= m
DrawdownAt(curve, i) ==
    Rat(RunningPeak(curve, i) - curve[i], RunningPeak(curve, i))
LargestDrawdown(curve) ==
    CHOOSE d \in {DrawdownAt(curve, i) : i \in 1..Len(curve)} :
        \A i \in 1..Len(curve) : RLe(DrawdownAt(curve, i), d)
NonDecreasing(curve) == \A i \in 1..(Len(curve) - 1) : curve[i] <= curve[i + 1]

====
